---- MODULE Spec2Model ----
(***************************************************************************)
(* EnergyStorageEnv (gridworld/agents/energy_storage/energy_storage_env.py) *)
(* and its data loader (utils.py) as a state machine.                      *)
(*                                                                         *)
(* Numbers that are floats in the program are exact rationals <<n, d>>     *)
(* with d > 0 in lowest terms; <<0, 0>> stands for Python's None.  Time is *)
(* counted in minutes from the episode date.                               *)
(***************************************************************************)
EXTENDS Integers, Sequences, FiniteSets, TLC

\* ------------------------------------------------------------ bounds
\* step calls made on one environment between two resets
MaxSteps == 3
\* the same in the runs that record the history of the episode
EpisodeSteps == 2
\* step calls made in the runs of whole episodes
LongSteps == 290

\* ------------------------------------------------------------ rationals
Abs(x) == IF x < 0 THEN -x ELSE x

RECURSIVE Gcd(_, _)
Gcd(a, b) == IF b = 0 THEN a ELSE Gcd(b, a % b)

\* n/d in lowest terms with a positive denominator (d # 0)
R(n, d) ==
    LET g == Gcd(Abs(n), Abs(d))
        s == IF d < 0 THEN -1 ELSE 1
    IN  <<(s * n) \div g, (s * d) \div g>>

None == <<0, 0>>
IsNone(x) == x[2] = 0
Num(i) == <<i, 1>>
Zero == Num(0)

\* sums and comparisons over the least common denominator, products with the
\* common factors cancelled first, so that intermediate values stay small
Scale(a, b) == b[2] \div Gcd(a[2], b[2])
RAdd(a, b) == R(a[1] * Scale(a, b) + b[1] * Scale(b, a), a[2] * Scale(a, b))
RNeg(a) == <<0 - a[1], a[2]>>
RSub(a, b) == RAdd(a, RNeg(b))
RMul(a, b) ==
    LET g1 == Gcd(Abs(a[1]), b[2])
        g2 == Gcd(Abs(b[1]), a[2])
    IN  R((a[1] \div g1) * (b[1] \div g2), (a[2] \div g2) * (b[2] \div g1))
RInv(a) == IF a[1] < 0 THEN <<0 - a[2], 0 - a[1]>> ELSE <<a[2], a[1]>>
RDiv(a, b) == RMul(a, RInv(b))
RLt(a, b) == a[1] * Scale(a, b) < b[1] * Scale(b, a)
RLe(a, b) == a[1] * Scale(a, b) <= b[1] * Scale(b, a)
\* Python's max(a, b) / min(a, b): the first argument unless the second beats it
RMax(a, b) == IF RLt(a, b) THEN b ELSE a
RMin(a, b) == IF RLt(b, a) THEN b ELSE a

\* ------------------------------------------------------------ constructor arguments
\* EnergyStorageEnv.__init__ defaults
DefaultArgs ==
    [ storage_range        |-> <<Num(3), Num(50)>>,
      initial_storage_mean |-> Num(30),
      initial_storage_std  |-> Num(5),
      charge_efficiency    |-> <<19, 20>>,
      discharge_efficiency |-> <<9, 10>>,
      max_power            |-> Num(15),
      max_episode_steps    |-> 288,
      control_timedelta    |-> 300,
      rescale_spaces       |-> TRUE,
      date                 |-> 0 ]

\* The argument records the constructor is called with: the defaults, and the
\* defaults with one or two arguments changed.
ArgSet ==
    { DefaultArgs,
      [DefaultArgs EXCEPT !.max_episode_steps = 2],
      [DefaultArgs EXCEPT !.max_episode_steps = 2, !.rescale_spaces = FALSE],
      [DefaultArgs EXCEPT !.max_episode_steps = 3, !.control_timedelta = 600],
      [DefaultArgs EXCEPT !.max_episode_steps = 2, !.initial_storage_mean = Num(48)],
      [DefaultArgs EXCEPT !.max_episode_steps = 2, !.initial_storage_mean = Num(4),
                          !.initial_storage_std = Num(2)],
      [DefaultArgs EXCEPT !.max_episode_steps = 1, !.charge_efficiency = Num(1),
                          !.discharge_efficiency = Num(1)] }

\* ------------------------------------------------------------ the persisted data
\* A raw timestamp is a wall-clock minute with its UTC offset, as the CSV
\* files carry it; pd.to_datetime(..., utc=True) brings it to UTC.
RawOffset == 0 - 420
Stamp(utcMinute) == [wall |-> utcMinute + RawOffset, utcoffset |-> RawOffset]
to_datetime(ts) == ts.wall - ts.utcoffset

\* values of the series at a UTC minute
LmpAt(t) == 50 + 4 * (((t \div 5) + 2) % 3)
LoadAt(t) == 20000 + 10 * ((t \div 5) % 4)
MoerAt(t) == 10 + 2 * (((t \div 5) + 1) % 2)
LoadForecastAt(t) == 21000 + ((t \div 60) % 5)
SolarAt(t) == 100 + ((t \div 60) % 2)
WindAt(t) == 200 + ((t \div 60) % 3)

\* the 5-minute and hourly instants the files hold around the episode day
SpotMinutes == {5 * k : k \in (0 - 2)..291}
HourMinutes == {60 * k : k \in (0 - 1)..25}

SpotRow(t, v) == [interval_start |-> Stamp(t), interval_end |-> Stamp(t + 5), value |-> v]
HourRow(t, v) == [interval_start |-> Stamp(t), interval_end |-> Stamp(t + 60), value |-> v]

\* What is on disk.  "complete" holds every row; the others lack rows of one
\* file; "lmp_moved" lacks the 00:10 price row and holds a 00:12 row instead.
FileSet ==
    { "complete", "lmp_287", "load_gap", "moer_gap", "load_forecast_gap",
      "solar_wind_gap", "lmp_moved" }

lmp_fp(disk) ==
    LET all == {SpotRow(t, Num(LmpAt(t))) : t \in SpotMinutes}
    IN  CASE disk = "lmp_287" ->
                {r \in all : to_datetime(r.interval_start) \notin {100, 105}}
          [] disk = "lmp_moved" ->
                {r \in all : to_datetime(r.interval_start) # 10}
                    \cup {SpotRow(12, Num(LmpAt(12)))}
          [] OTHER -> all

load_fp(disk) ==
    LET all == {SpotRow(t, Num(LoadAt(t))) : t \in SpotMinutes}
    IN  IF disk = "load_gap"
        THEN {r \in all : to_datetime(r.interval_start) # 1440}
        ELSE all

moer_fp(disk) ==
    LET all == {SpotRow(t, Num(MoerAt(t))) : t \in SpotMinutes}
    IN  IF disk = "moer_gap"
        THEN {r \in all : to_datetime(r.interval_start) # 0}
        ELSE all

load_forecast_fp(disk) ==
    LET all == {HourRow(t, Num(LoadForecastAt(t))) : t \in HourMinutes}
    IN  IF disk = "load_forecast_gap"
        THEN {r \in all : to_datetime(r.interval_start) # 720}
        ELSE all

solar_wind_forecast_fp(disk) ==
    LET all == {HourRow(t, <<Num(SolarAt(t)), Num(WindAt(t))>>) : t \in HourMinutes}
    IN  IF disk = "solar_wind_gap"
        THEN {r \in all : to_datetime(r.interval_start) # 1440}
        ELSE all

\* utils.get_desired_dates: timestamps to UTC, rows with start <= interval_start < end
get_desired_dates(df, start_date, end_date) ==
    LET parsed == { [interval_start |-> to_datetime(r.interval_start),
                     interval_end   |-> to_datetime(r.interval_end),
                     value          |-> r.value] : r \in df }
    IN  {r \in parsed : r.interval_start >= start_date /\ r.interval_start < end_date}

\* utils.get_data
get_data(disk, start_date, end_date) ==
    [ lmp_df                 |-> get_desired_dates(lmp_fp(disk), start_date, end_date),
      load_df                |-> get_desired_dates(load_fp(disk), start_date, end_date),
      load_forecast_df       |-> get_desired_dates(load_forecast_fp(disk), start_date, end_date),
      moer_df                |-> get_desired_dates(moer_fp(disk), start_date, end_date),
      solar_wind_forecast_df |-> get_desired_dates(solar_wind_forecast_fp(disk), start_date, end_date) ]

\* what get_data returns for each content of the disk and each episode date
\* (__init__ asks for the rows from date to date + 24 h + 5 min); "" is no data
DateSet == {a.date : a \in ArgSet}
FetchTable ==
    { [disk |-> f, start |-> d, dfs |-> get_data(f, d, d + 24 * 60 + 5)] :
        f \in FileSet, d \in DateSet } \cup
    { [disk |-> "", start |-> d,
       dfs |-> [ lmp_df |-> {}, load_df |-> {}, load_forecast_df |-> {}, moer_df |-> {},
                 solar_wind_forecast_df |-> {} ]] : d \in DateSet }
Fetched(f, d) == (CHOOSE e \in FetchTable : e.disk = f /\ e.start = d).dfs

\* ------------------------------------------------------------ inputs of reset and step
\* truncnorm(-1, 1).rvs(): a draw from [-1, 1]
SampleSet == {Num(0 - 1), Zero, Num(1)}

\* init_storage as passed to reset when it is given: a float, a string or a list
OverrideSet ==
    { [kind |-> "float",  value |-> R(31, 10)],
      [kind |-> "float",  value |-> Num(49)],
      [kind |-> "float",  value |-> Num(60)],
      [kind |-> "float",  value |-> Num(0 - 5)],
      [kind |-> "str",    value |-> R(43, 10)],
      [kind |-> "str",    value |-> None],
      [kind |-> "list",   value |-> None] }

\* action[0] as passed to step; the code does not confine it to [-1, 1]
ActionSet == {Num(0 - 10), R(0 - 1, 3), Zero, R(1, 3), Num(1)}

\* ------------------------------------------------------------ state
VARIABLES
    args, files,              \* the constructor's arguments and the files on disk
    status,                   \* "new", "ready" (constructed) or "raised" (__init__ raised)
    storage_range, initial_storage_mean, initial_storage_std,
    charge_efficiency, discharge_efficiency, max_power, rescale_spaces,
    max_episode_steps, control_interval_in_hr, date,
    loaded,                   \* the files whose rows the five frames of the object hold
    simulation_step, current_datetime, current_storage, real_power,
    lmp, load, moer, load_forecast, solar_forecast, wind_forecast,
    call,                     \* the last call made and its arguments
    ret,                      \* what the last call returned or raised
    episode                   \* history: how the running episode was called

inputvars == <<args, files>>
cfgvars == <<storage_range, initial_storage_mean, initial_storage_std,
             charge_efficiency, discharge_efficiency, max_power, rescale_spaces,
             max_episode_steps, control_interval_in_hr, date>>
datavars == <<loaded>>
obsvars == <<lmp, load, moer, load_forecast, solar_forecast, wind_forecast>>
vars == <<inputvars, status, cfgvars, datavars, simulation_step, current_datetime,
          current_storage, real_power, obsvars, call, ret, episode>>

NoCall == [op |-> "none", action |-> None, init_storage |-> [kind |-> "absent", value |-> None],
           n |-> 0]
NoObs == <<None, None, None, None, None, None, None>>
\* the history of an episode: the init_storage its reset was given, whether
\* step calls came before that reset, and the actions of its step calls
NoEpisode == [init_storage |-> NoCall.init_storage, after_steps |-> FALSE, actions |-> <<>>]
Returned(obs, soc, rew, term) ==
    [kind |-> "return", obs |-> obs, state_of_charge |-> soc, rew |-> rew,
     terminal |-> term, exc |-> ""]
Raised(exc) ==
    [kind |-> "raise", obs |-> NoObs, state_of_charge |-> None, rew |-> None,
     terminal |-> FALSE, exc |-> exc]

\* the frames the object holds
lmp_df == Fetched(loaded, date).lmp_df
load_df == Fetched(loaded, date).load_df
load_forecast_df == Fetched(loaded, date).load_forecast_df
moer_df == Fetched(loaded, date).moer_df
solar_wind_forecast_df == Fetched(loaded, date).solar_wind_forecast_df

\* ------------------------------------------------------------ data lookup
\* <frame>.<column>.values.item(): the selected value; raises unless one row is selected
HasItem(rows) == Cardinality(rows) = 1
Item(rows) == (CHOOSE r \in rows : TRUE).value

\* EnergyStorageEnv._get_hourly_forecast_for_next_5_min
get_hourly_forecast_for_next_5_min(df, now) ==
    LET forecast_datetime == now + 5
    IN  {r \in df : r.interval_start <= forecast_datetime /\ r.interval_end > forecast_datetime}

\* EnergyStorageEnv._update_current_obs: six assignments in order; a lookup
\* that raises leaves the later fields as they were.
update_current_obs(dfs, now, old) ==
    LET a == {r \in dfs.lmp_df : r.interval_start = now}
        b == {r \in dfs.load_df : r.interval_start = now}
        c == {r \in dfs.moer_df : r.interval_start = now}
        d == get_hourly_forecast_for_next_5_min(dfs.load_forecast_df, now)
        e == get_hourly_forecast_for_next_5_min(dfs.solar_wind_forecast_df, now)
        k == IF ~HasItem(a) THEN 0
             ELSE IF ~HasItem(b) THEN 1
             ELSE IF ~HasItem(c) THEN 2
             ELSE IF ~HasItem(d) THEN 3
             ELSE IF ~HasItem(e) THEN 4
             ELSE 6
    IN  [ lmp            |-> IF k >= 1 THEN Item(a) ELSE old.lmp,
          load           |-> IF k >= 2 THEN Item(b) ELSE old.load,
          moer           |-> IF k >= 3 THEN Item(c) ELSE old.moer,
          load_forecast  |-> IF k >= 4 THEN Item(d) ELSE old.load_forecast,
          solar_forecast |-> IF k >= 6 THEN Item(e)[1] ELSE old.solar_forecast,
          wind_forecast  |-> IF k >= 6 THEN Item(e)[2] ELSE old.wind_forecast,
          raised         |-> k < 6 ]

CurrentObs ==
    [ lmp |-> lmp, load |-> load, moer |-> moer, load_forecast |-> load_forecast,
      solar_forecast |-> solar_forecast, wind_forecast |-> wind_forecast ]

\* ------------------------------------------------------------ construction
\* the row-count checks with the check of the load series left out
IncompleteSeries_no_load(dfs) ==
    IF Cardinality(dfs.lmp_df) # 288 + 1 THEN "LMP"
    ELSE IF Cardinality(dfs.moer_df) # 288 + 1 THEN "MOER"
    ELSE IF Cardinality(dfs.load_forecast_df) # 24 + 1 THEN "load forecast"
    ELSE IF Cardinality(dfs.solar_wind_forecast_df) # 24 + 1 THEN "solar and wind forecast"
    ELSE ""

\* the row-count checks of __init__, in order: "" when all pass, else the
\* series the raised exception names
IncompleteSeries(dfs) ==
    IF Cardinality(dfs.lmp_df) # 288 + 1 THEN "LMP"
    ELSE IF Cardinality(dfs.load_df) # 288 + 1 THEN "load"
    ELSE IF Cardinality(dfs.moer_df) # 288 + 1 THEN "MOER"
    ELSE IF Cardinality(dfs.load_forecast_df) # 24 + 1 THEN "load forecast"
    ELSE IF Cardinality(dfs.solar_wind_forecast_df) # 24 + 1 THEN "solar and wind forecast"
    ELSE ""

\* no object yet: __init__ has not run
NoObject ==
    /\ status = "new"
    /\ storage_range = <<None, None>>
    /\ initial_storage_mean = None
    /\ initial_storage_std = None
    /\ charge_efficiency = None
    /\ discharge_efficiency = None
    /\ max_power = None
    /\ rescale_spaces = FALSE
    /\ max_episode_steps = 0
    /\ control_interval_in_hr = None
    /\ date = 0
    /\ loaded = ""
    /\ simulation_step = 0
    /\ current_datetime = 0
    /\ current_storage = None
    /\ real_power = None
    /\ lmp = None /\ load = None /\ moer = None /\ load_forecast = None
    /\ solar_forecast = None /\ wind_forecast = None
    /\ call = NoCall
    /\ ret = Raised("")
    /\ episode = NoEpisode

Init ==
    /\ \/ args \in ArgSet /\ files = "complete"
       \/ args = DefaultArgs /\ files \in FileSet
    /\ NoObject

\* EnergyStorageEnv.__init__
Construct ==
    /\ status = "new"
    /\ storage_range' = args.storage_range
    /\ initial_storage_mean' = args.initial_storage_mean
    /\ initial_storage_std' = args.initial_storage_std
    /\ charge_efficiency' = args.charge_efficiency
    /\ discharge_efficiency' = args.discharge_efficiency
    /\ max_power' = args.max_power
    /\ current_storage' = None
    /\ rescale_spaces' = args.rescale_spaces
    /\ simulation_step' = 0
    /\ max_episode_steps' = args.max_episode_steps
    /\ control_interval_in_hr' = R(args.control_timedelta, 3600)
    /\ call' = [NoCall EXCEPT !.op = "init"]
    /\ LET dfs == Fetched(files, args.date)
           bad == IncompleteSeries(dfs)
       IN  \E u \in {update_current_obs(dfs, args.date, CurrentObs)} :
           IF bad # ""
           THEN /\ status' = "raised"
                /\ ret' = Raised(bad)
                /\ UNCHANGED <<date, datavars, current_datetime, obsvars>>
           ELSE /\ date' = args.date
                /\ loaded' = files
                /\ current_datetime' = args.date
                /\ lmp' = u.lmp /\ load' = u.load /\ moer' = u.moer
                /\ load_forecast' = u.load_forecast
                /\ solar_forecast' = u.solar_forecast
                /\ wind_forecast' = u.wind_forecast
                /\ status' = IF u.raised THEN "raised" ELSE "ready"
                /\ ret' = IF u.raised THEN Raised("ValueError")
                          ELSE Returned(NoObs, None, None, FALSE)
    /\ UNCHANGED <<inputvars, real_power, episode>>

\* ------------------------------------------------------------ rescaling
\* gridworld.utils.to_raw: a value of the normalized range [-1, 1] mapped
\* linearly onto [low, high]
to_raw(x, low, high) == RAdd(low, RDiv(RMul(RSub(high, low), RAdd(x, Num(1))), Num(2)))

\* gridworld.utils.to_scaled: a value of [low, high] mapped linearly onto the
\* normalized range
to_scaled(x, low, high) == RDiv(RSub(x, low), RSub(high, low))

\* ------------------------------------------------------------ the storage
\* validate_power with the discharge limit scaled by the discharge efficiency
validate_power_eff(storage, power) ==
    IF RLt(Zero, power)
    THEN IF RLt(RSub(storage, RDiv(RMul(power, control_interval_in_hr), discharge_efficiency)),
                storage_range[1])
         THEN RDiv(RMul(RMax(RSub(storage, storage_range[1]), Zero), discharge_efficiency),
                   control_interval_in_hr)
         ELSE power
    ELSE IF RLt(power, Zero)
    THEN IF RLt(storage_range[2],
                RSub(storage, RMul(RMul(charge_efficiency, power), control_interval_in_hr)))
         THEN RNeg(RDiv(RMax(RSub(storage_range[2], storage), Zero), control_interval_in_hr))
         ELSE power
    ELSE power

\* validate_power without the max(..., 0.0) of its two limits
validate_power_signed(storage, power) ==
    IF RLt(Zero, power)
    THEN IF RLt(RSub(storage, RDiv(RMul(power, control_interval_in_hr), discharge_efficiency)),
                storage_range[1])
         THEN RDiv(RSub(storage, storage_range[1]), control_interval_in_hr)
         ELSE power
    ELSE IF RLt(power, Zero)
    THEN IF RLt(storage_range[2],
                RSub(storage, RMul(RMul(charge_efficiency, power), control_interval_in_hr)))
         THEN RNeg(RDiv(RSub(storage_range[2], storage), control_interval_in_hr))
         ELSE power
    ELSE power

\* EnergyStorageEnv.validate_power, for self.current_storage = storage
validate_power(storage, power) ==
    IF RLt(Zero, power)
    THEN IF RLt(RSub(storage, RDiv(RMul(power, control_interval_in_hr), discharge_efficiency)),
                storage_range[1])
         THEN RDiv(RMax(RSub(storage, storage_range[1]), Zero), control_interval_in_hr)
         ELSE power
    ELSE IF RLt(power, Zero)
    THEN IF RLt(storage_range[2],
                RSub(storage, RMul(RMul(charge_efficiency, power), control_interval_in_hr)))
         THEN RNeg(RDiv(RMax(RSub(storage_range[2], storage), Zero), control_interval_in_hr))
         ELSE power
    ELSE power

\* the efficiency-scaled update of step, before its min/max
scaled_update(storage, power) ==
    IF RLt(power, Zero)
    THEN RSub(storage, RMul(RMul(charge_efficiency, power), control_interval_in_hr))
    ELSE IF RLt(Zero, power)
    THEN RSub(storage, RDiv(RMul(power, control_interval_in_hr), discharge_efficiency))
    ELSE storage

\* the storage update with both bounds applied whatever the sign of the power
apply_power_both(storage, power) ==
    RMin(RMax(scaled_update(storage, power), storage_range[1]), storage_range[2])

\* the storage update of step: the scaled update, then min with the upper
\* bound (charging) or max with the lower bound (discharging)
apply_power(storage, power) ==
    IF RLt(power, Zero)
    THEN RMin(scaled_update(storage, power), storage_range[2])
    ELSE IF RLt(Zero, power)
    THEN RMax(scaled_update(storage, power), storage_range[1])
    ELSE storage

\* step_reward on the price alone
step_reward_price(price, carbon, power) == RMul(price, power)

\* EnergyStorageEnv.step_reward, for self.lmp = price and self.moer = carbon
step_reward(price, carbon, power) == RMul(RAdd(price, carbon), power)

\* is_terminal with a strict comparison
is_terminal_gt(step) == step > max_episode_steps

\* EnergyStorageEnv.is_terminal, for self.simulation_step = step
is_terminal(step) == step >= max_episode_steps

\* EnergyStorageEnv.get_obs, for self.current_storage = storage and the
\* exogenous fields o; scaling a storage of None raises TypeError
get_obs(storage, o) ==
    IF rescale_spaces /\ IsNone(storage)
    THEN Raised("TypeError")
    ELSE Returned(<< IF rescale_spaces
                     THEN to_scaled(storage, storage_range[1], storage_range[2])
                     ELSE storage,
                     o.lmp, o.load, o.load_forecast, o.moer, o.solar_forecast,
                     o.wind_forecast >>,
                  storage, None, FALSE)

\* ------------------------------------------------------------ reset
\* float(init_storage): a float is itself, a string is parsed when it holds a
\* number and raises ValueError otherwise, a list raises TypeError
float_of(x) ==
    [ ok    |-> x.kind = "float" \/ (x.kind = "str" /\ ~IsNone(x.value)),
      value |-> x.value,
      exc   |-> IF x.kind = "list" THEN "TypeError" ELSE "ValueError" ]

\* no clipping
clip_none(x, low, high) == x

\* np.clip
clip(x, low, high) == RMin(RMax(x, low), high)

\* the storage of reset with the draw scaled but not shifted by the mean
initial_storage_unshifted(init_storage, z) ==
    IF init_storage.kind = "absent"
    THEN RMul(z, initial_storage_std)
    ELSE IF float_of(init_storage).ok
    THEN clip(float_of(init_storage).value, storage_range[1], storage_range[2])
    ELSE initial_storage_mean

\* the storage reset assigns, for the override init_storage and the draw z
initial_storage(init_storage, z) ==
    IF init_storage.kind = "absent"
    THEN RAdd(RMul(z, initial_storage_std), initial_storage_mean)
    ELSE IF float_of(init_storage).ok
    THEN clip(float_of(init_storage).value, storage_range[1], storage_range[2])
    ELSE initial_storage_mean

\* reset that leaves simulation_step and current_datetime as they are
reset_keep_clock(init_storage, z) ==
    /\ status = "ready"
    /\ \E stored \in {initial_storage(init_storage, z)} :
           /\ current_storage' = stored
           /\ ret' = get_obs(stored, CurrentObs)
    /\ call' = [op |-> "reset", action |-> None, init_storage |-> init_storage,
                n |-> simulation_step]
    /\ UNCHANGED <<inputvars, status, cfgvars, datavars, real_power, obsvars,
                   simulation_step, current_datetime>>

\* EnergyStorageEnv.reset
reset(init_storage, z) ==
    /\ status = "ready"
    /\ simulation_step' = 0
    /\ current_datetime' = date
    /\ \E stored \in {initial_storage(init_storage, z)} :
           /\ current_storage' = stored
           /\ ret' = get_obs(stored, CurrentObs)
    /\ call' = [op |-> "reset", action |-> None, init_storage |-> init_storage, n |-> 0]
    /\ UNCHANGED <<inputvars, status, cfgvars, datavars, real_power, obsvars>>

\* a call of reset
Reset(init_storage, z) == reset(init_storage, z) /\ UNCHANGED episode

\* a call of reset, recorded in the history
EpisodeReset(init_storage, z) ==
    /\ reset(init_storage, z)
    /\ episode' = [ init_storage |-> init_storage,
                    after_steps  |-> episode.after_steps \/ episode.actions # <<>>,
                    actions      |-> <<>> ]

\* ------------------------------------------------------------ step
\* EnergyStorageEnv.step
step(action) ==
    /\ status = "ready"
    /\ simulation_step' = simulation_step + 1
    /\ current_datetime' = current_datetime + 5
    /\ call' = [op |-> "step", action |-> action,
                init_storage |-> NoCall.init_storage, n |-> call.n + 1]
    /\ \E u \in {update_current_obs(
                    [ lmp_df |-> lmp_df, load_df |-> load_df,
                      load_forecast_df |-> load_forecast_df, moer_df |-> moer_df,
                      solar_wind_forecast_df |-> solar_wind_forecast_df ],
                    current_datetime', CurrentObs)},
          raw \in {IF rescale_spaces THEN to_raw(action, Num(0 - 1), Num(1)) ELSE action} :
       \E requested \in {RMul(raw, max_power)} :
           /\ lmp' = u.lmp /\ load' = u.load /\ moer' = u.moer
           /\ load_forecast' = u.load_forecast
           /\ solar_forecast' = u.solar_forecast
           /\ wind_forecast' = u.wind_forecast
           /\ IF u.raised
              THEN /\ ret' = Raised("ValueError")
                   /\ UNCHANGED <<current_storage, real_power>>
              ELSE IF IsNone(current_storage) /\ requested # Zero
              THEN \* None - float in validate_power
                   /\ ret' = Raised("TypeError")
                   /\ UNCHANGED <<current_storage, real_power>>
              ELSE \E power \in {IF IsNone(current_storage) THEN requested
                                 ELSE validate_power(current_storage, requested)} :
                   \E stored \in {IF IsNone(current_storage) THEN current_storage
                                  ELSE apply_power(current_storage, power)} :
                   \E got \in {get_obs(stored, u)} :
                       /\ current_storage' = stored
                       /\ real_power' = RNeg(power)
                       /\ ret' = IF got.kind = "raise" THEN got
                                 ELSE [got EXCEPT
                                         !.rew = step_reward(u.lmp, u.moer, power),
                                         !.terminal = is_terminal(simulation_step')]
    /\ UNCHANGED <<inputvars, status, cfgvars, datavars>>

\* a call of step, up to MaxSteps of them in an episode
Step(action) ==
    /\ simulation_step < MaxSteps
    /\ step(action)
    /\ UNCHANGED episode

\* a call of step, recorded in the history
EpisodeStep(action) ==
    /\ simulation_step < EpisodeSteps
    /\ step(action)
    /\ episode' = [episode EXCEPT !.actions = Append(@, action)]

Next ==
    \/ Construct
    \/ \E z \in SampleSet : Reset(NoCall.init_storage, z)
    \/ \E init_storage \in OverrideSet : Reset(init_storage, Zero)
    \/ \E action \in ActionSet : Step(action)

Spec == Init /\ [][Next]_vars

\* the same calls with the history of the episode recorded
NextEpisodes ==
    \/ Construct
    \/ \E z \in SampleSet : EpisodeReset(NoCall.init_storage, z)
    \/ \E init_storage \in OverrideSet : EpisodeReset(init_storage, Zero)
    \/ \E action \in ActionSet : EpisodeStep(action)

SpecEpisodes == Init /\ [][NextEpisodes]_vars

\* Whole episodes: the default episode of 288 steps and one of 289 steps, on
\* the complete files and on the files with the moved price row, with steps
\* that discharge a little or do nothing.
LongArgSet == {DefaultArgs, [DefaultArgs EXCEPT !.max_episode_steps = 289]}
LongFileSet == {"complete", "lmp_moved"}
LongOverrideSet == {[kind |-> "float", value |-> R(31, 10)]}
LongActionSet == {Zero, R(1, 3)}

LongInit ==
    /\ args \in LongArgSet
    /\ files \in LongFileSet
    /\ NoObject

\* a call of step, up to LongSteps of them in an episode
LongStep(action) ==
    /\ simulation_step < LongSteps
    /\ step(action)
    /\ UNCHANGED episode

LongNext ==
    \/ Construct
    \/ \E init_storage \in LongOverrideSet : Reset(init_storage, Zero)
    \/ \E action \in LongActionSet : LongStep(action)

SpecLong == LongInit /\ [][LongNext]_vars

\* ------------------------------------------------------------ properties
InRange(x) == RLe(storage_range[1], x) /\ RLe(x, storage_range[2])

\* the last call was a step that returned
StepReturned == call.op = "step" /\ ret.kind = "return"
\* the last call was a reset that returned
ResetReturned == call.op = "reset" /\ ret.kind = "return"

\* the value of the one row of df that starts at t
ValueAt(df, t) == (CHOOSE r \in df : r.interval_start = t).value
\* the value of the one row of df whose interval holds t
ValueOver(df, t) == (CHOOSE r \in df : r.interval_start <= t /\ t < r.interval_end).value

\* C1: after every step that returns, once a reset has set the storage,
\* storage_range.min <= current_storage <= storage_range.max.
C1_BoundsAfterStep ==
    (StepReturned /\ ~IsNone(current_storage)) => InRange(current_storage)

\* C2: for a current_storage within storage_range, the power validate_power
\* returns, applied through the efficiency-scaled update alone, leaves the
\* storage within storage_range (the min/max of step changes nothing).
C2_FeasibleWithoutClamp ==
    [][ ( /\ call'.op = "step" /\ ret'.kind = "return"
          /\ ~IsNone(current_storage)
          /\ InRange(current_storage) )
        => InRange(scaled_update(current_storage, RNeg(real_power'))) ]_vars

\* C3: with n the number of step calls since the last reset, simulation_step
\* is n, and the terminal flag a step returns is true exactly when
\* n >= max_episode_steps: false for the first max_episode_steps - 1 calls,
\* true at the max_episode_steps-th.
C3_Termination ==
    status = "ready" =>
        /\ simulation_step = call.n
        /\ StepReturned => (ret.terminal <=> call.n >= max_episode_steps)
        /\ (StepReturned /\ call.n < max_episode_steps) => ~ret.terminal
        /\ (StepReturned /\ call.n = max_episode_steps) => ret.terminal

\* a step has just returned terminal at exactly the max_episode_steps-th call
\* of an episode of at least two steps
C3_Witness ==
    /\ StepReturned
    /\ max_episode_steps >= 2
    /\ call.n = max_episode_steps
    /\ ret.terminal

\* C4: the observation reset returns carries the dataset values at the
\* episode start (price, load, load forecast, carbon intensity, solar and
\* wind forecast), whatever steps came before.
C4_ResetObservationIsFresh ==
    ResetReturned =>
        /\ ret.obs[2] = ValueAt(lmp_df, date)
        /\ ret.obs[3] = ValueAt(load_df, date)
        /\ ret.obs[4] = ValueOver(load_forecast_df, date + 5)
        /\ ret.obs[5] = ValueAt(moer_df, date)
        /\ ret.obs[6] = ValueOver(solar_wind_forecast_df, date + 5)[1]
        /\ ret.obs[7] = ValueOver(solar_wind_forecast_df, date + 5)[2]

\* the reference of C5 for the power validate_power returns
FeasibleReference(storage, p) ==
    LET dt == control_interval_in_hr
        lo == storage_range[1]
        hi == storage_range[2]
    IN  IF RLt(Zero, p) /\ RLt(RSub(storage, RDiv(RMul(p, dt), discharge_efficiency)), lo)
        THEN IF RLt(lo, storage) THEN RDiv(RSub(storage, lo), dt) ELSE Zero
        ELSE IF RLt(p, Zero) /\ RLt(hi, RSub(storage, RMul(charge_efficiency, RMul(p, dt))))
        THEN IF RLt(storage, hi) THEN RNeg(RDiv(RSub(hi, storage), dt)) ELSE Zero
        ELSE p

\* C5: the power a step enacts is the reference value for the storage before
\* the step and the requested power action * max_power; and with
\* storage_range = (3, 50), current_storage = 3.1, discharge_efficiency = 0.9,
\* control interval 5/60 h, a request of 15 gives 1.2.
C5_ValidatePowerReference ==
    [][ (call'.op = "step" /\ ret'.kind = "return" /\ ~IsNone(current_storage)) =>
          /\ RNeg(real_power') =
                FeasibleReference(current_storage, RMul(call'.action, max_power))
          /\ ( /\ storage_range = <<Num(3), Num(50)>>
               /\ current_storage = <<31, 10>>
               /\ discharge_efficiency = <<9, 10>>
               /\ control_interval_in_hr = <<1, 12>>
               /\ RMul(call'.action, max_power) = Num(15) )
             => real_power' = <<0 - 6, 5>> ]_vars

\* a step has just enacted 1.2 for a request of 15 and emptied the storage to 3
C5_Witness ==
    /\ StepReturned
    /\ call.action = Num(1) /\ max_power = Num(15)
    /\ control_interval_in_hr = <<1, 12>>
    /\ real_power = <<0 - 6, 5>>
    /\ current_storage = Num(3)

\* C6: a step whose action maps to zero requested power leaves
\* current_storage as it was, while simulation_step advances by one and
\* current_datetime by five minutes.
C6_ZeroPowerStep ==
    [][ (call'.op = "step" /\ RMul(call'.action, max_power) = Zero) =>
          /\ current_storage' = current_storage
          /\ simulation_step' = simulation_step + 1
          /\ current_datetime' = current_datetime + 5 ]_vars

\* a zero-power step has just returned with a storage outside storage_range
C6_Witness ==
    /\ StepReturned
    /\ call.action = Zero
    /\ ~IsNone(current_storage)
    /\ ~InRange(current_storage)

C7_ChargeCase ==
    /\ StepReturned
    /\ lmp = Num(50) /\ moer = Num(10)
    /\ real_power = Num(5)
    /\ ret.rew = Num(0 - 300)

\* the same for a request of 15 of which 1.2 is enacted, for a reward of 72
C7_ClampedCase ==
    /\ StepReturned
    /\ lmp = Num(50) /\ moer = Num(10)
    /\ RMul(call.action, max_power) = Num(15)
    /\ real_power = <<0 - 6, 5>>
    /\ ret.rew = Num(72)

\* the rows get_data returns for the constructor's arguments
FetchedForArgs == Fetched(files, args.date)
\* one of the five fetched series has not the 289 (5-minute series) or 25
\* (hourly series) rows the constructor requires
SomeSeriesIncomplete ==
    \/ Cardinality(FetchedForArgs.lmp_df) # 289
    \/ Cardinality(FetchedForArgs.load_df) # 289
    \/ Cardinality(FetchedForArgs.moer_df) # 289
    \/ Cardinality(FetchedForArgs.load_forecast_df) # 25
    \/ Cardinality(FetchedForArgs.solar_wind_forecast_df) # 25

\* C8: when one of the five fetched series has not its required row count, the
\* constructor raises: the environment is never ready, no reset or step runs
\* on it, and no rows are taken over; an environment that is ready holds the
\* fetched rows, all of them.
C8_IncompleteDataRejected ==
    /\ (status # "new" /\ SomeSeriesIncomplete) =>
          /\ status = "raised"
          /\ ret.kind = "raise"
          /\ call.op = "init"
          /\ loaded = ""
    /\ status = "ready" =>
          /\ lmp_df = FetchedForArgs.lmp_df
          /\ load_df = FetchedForArgs.load_df
          /\ moer_df = FetchedForArgs.moer_df
          /\ load_forecast_df = FetchedForArgs.load_forecast_df
          /\ solar_wind_forecast_df = FetchedForArgs.solar_wind_forecast_df

\* the constructor has raised on 287 price rows
C8_Witness ==
    /\ status = "raised"
    /\ Cardinality(FetchedForArgs.lmp_df) = 287
    /\ ret.exc = "LMP"

\* C9: an environment that is constructed holds price, load and carbon series
\* of max_episode_steps + 1 rows and forecast series of
\* max_episode_steps * control_interval_hours + 1 rows.
C9_CountsFollowConfiguration ==
    status = "ready" =>
        /\ Cardinality(lmp_df) = max_episode_steps + 1
        /\ Cardinality(load_df) = max_episode_steps + 1
        /\ Cardinality(moer_df) = max_episode_steps + 1
        /\ Num(Cardinality(load_forecast_df)) =
              RAdd(RMul(Num(max_episode_steps), control_interval_in_hr), Num(1))
        /\ Num(Cardinality(solar_wind_forecast_df)) =
              RAdd(RMul(Num(max_episode_steps), control_interval_in_hr), Num(1))

\* an override that float() accepts
Numeric(x) == x.kind = "float" \/ (x.kind = "str" /\ ~IsNone(x.value))

\* C10: a reset with an override returns, with simulation_step = 0 and
\* current_datetime = the episode start; a numeric override, brought into
\* storage_range, is the new current_storage; an override that is no number
\* makes current_storage the initial_storage_mean.
C10_ResetOverride ==
    (call.op = "reset" /\ call.init_storage.kind # "absent") =>
        /\ ret.kind = "return"
        /\ simulation_step = 0
        /\ current_datetime = date
        /\ Numeric(call.init_storage) =>
              /\ InRange(current_storage)
              /\ current_storage =
                    IF RLt(call.init_storage.value, storage_range[1]) THEN storage_range[1]
                    ELSE IF RLt(storage_range[2], call.init_storage.value)
                    THEN storage_range[2]
                    ELSE call.init_storage.value
        /\ ~Numeric(call.init_storage) => current_storage = initial_storage_mean

\* a reset given a list has just set the storage to the mean, after steps of
\* an earlier episode moved the clock
C10_Witness ==
    /\ ResetReturned
    /\ call.init_storage.kind = "list"
    /\ current_storage = initial_storage_mean
    /\ lmp # ValueAt(lmp_df, date)

\* the configured control interval in minutes
ControlMinutes == RMul(control_interval_in_hr, Num(60))

\* C11: in every state of a constructed environment current_datetime is the
\* episode start plus simulation_step control intervals, for the configured
\* control interval.
C11_ClockFollowsControlInterval ==
    status = "ready" =>
        Num(current_datetime) =
            RAdd(Num(date), RMul(Num(simulation_step), ControlMinutes))

\* with the default control interval of 5 minutes the coupling holds: two
\* steps into an episode the clock is 10 minutes past the episode start
C11_DefaultIntervalCase ==
    /\ status = "ready"
    /\ ControlMinutes = Num(5)
    /\ simulation_step = 2
    /\ current_datetime = date + 10

\* C13: 0 <= simulation_step <= max_episode_steps in every state, also after
\* step calls on an episode that is terminal and after steps that raised.
C13_StepCountWithinEpisode ==
    status = "ready" =>
        (0 <= simulation_step /\ simulation_step <= max_episode_steps)


RAbs(x) == IF x[1] < 0 THEN RNeg(x) ELSE x

\* a step has returned in the transition, on a storage that a reset had set
StepReturns == call'.op = "step" /\ ret'.kind = "return" /\ ~IsNone(current_storage)
\* the power that step requested: action[0] * max_power
RequestedPower == RMul(call'.action, max_power)
\* the power that step enacted
EnactedPower == RNeg(real_power')
\* the step enacted no power, left the storage as it was and returned reward 0
Saturated ==
    /\ EnactedPower = Zero
    /\ current_storage' = current_storage
    /\ ret'.rew = Zero

\* C14: with current_storage at or below storage_range.min a step that
\* requests a discharge, and with current_storage at or above
\* storage_range.max a step that requests a charge, enacts power 0, leaves
\* current_storage unchanged and returns reward 0.
C14_BoundarySaturation ==
    [][ StepReturns =>
          /\ (RLe(current_storage, storage_range[1]) /\ RLt(Zero, RequestedPower))
                => Saturated
          /\ (RLe(storage_range[2], current_storage) /\ RLt(RequestedPower, Zero))
                => Saturated ]_vars

\* a step has just asked a storage below storage_range.min for a discharge
C14_Witness ==
    /\ StepReturned
    /\ RLt(Zero, call.action)
    /\ ~IsNone(current_storage)
    /\ RLt(current_storage, storage_range[1])
    /\ real_power = Zero
    /\ ret.rew = Zero

\* a step has just asked a storage at storage_range.max for a charge
C14_FullCase ==
    /\ StepReturned
    /\ RLt(call.action, Zero)
    /\ current_storage = storage_range[2]
    /\ real_power = Zero
    /\ ret.rew = Zero

\* C15: for a current_storage within storage_range, the power validate_power
\* returns is zero or of the sign of the requested power, and its magnitude
\* is at most that of the requested power.
C15_ClampNeverAmplifies ==
    [][ (StepReturns /\ InRange(current_storage)) =>
          /\ RLt(Zero, EnactedPower) => RLt(Zero, RequestedPower)
          /\ RLt(EnactedPower, Zero) => RLt(RequestedPower, Zero)
          /\ RLe(RAbs(EnactedPower), RAbs(RequestedPower)) ]_vars

\* C16: for an action in [-1, 1] and a current_storage within storage_range,
\* the power a step enacts has magnitude at most max_power.
C16_PowerLimit ==
    [][ ( /\ StepReturns
          /\ InRange(current_storage)
          /\ RLe(Num(0 - 1), call'.action) /\ RLe(call'.action, Num(1)) )
        => RLe(RAbs(EnactedPower), max_power) ]_vars

\* C18: a reset without an override leaves current_storage within
\* [initial_storage_mean - initial_storage_std,
\*  initial_storage_mean + initial_storage_std].
C18_SampledStorage ==
    (call.op = "reset" /\ call.init_storage.kind = "absent") =>
        /\ RLe(RSub(initial_storage_mean, initial_storage_std), current_storage)
        /\ RLe(current_storage, RAdd(initial_storage_mean, initial_storage_std))

\* a reset without an override has just drawn a storage above
\* storage_range.max, after an earlier episode had moved the clock
C18_Witness ==
    /\ ResetReturned
    /\ call.init_storage.kind = "absent"
    /\ RLt(storage_range[2], current_storage)
    /\ current_storage = RAdd(initial_storage_mean, initial_storage_std)
    /\ lmp # ValueAt(lmp_df, date)


\* the frames of the object as get_data returned them
Frames ==
    [ lmp_df |-> lmp_df, load_df |-> load_df, load_forecast_df |-> load_forecast_df,
      moer_df |-> moer_df, solar_wind_forecast_df |-> solar_wind_forecast_df ]

\* A run of its own on an environment just constructed: reset(init_storage = x)
\* as the first call ...
FirstReset(x) ==
    LET start(stored, o) ==
            [ storage |-> stored, clock |-> date, n |-> 0, o |-> o,
              ret |-> get_obs(stored, o) ]
    IN  start(initial_storage(x, Zero),
              update_current_obs(Frames, date,
                  [ lmp |-> None, load |-> None, moer |-> None, load_forecast |-> None,
                    solar_forecast |-> None, wind_forecast |-> None ]))

\* ... and one step call with the given action from the point e of that run
StepFrom(e, action) ==
    LET enact(u, power) ==
            LET finish(stored) ==
                    [ storage |-> stored, clock |-> e.clock + 5, n |-> e.n + 1, o |-> u,
                      ret |-> [get_obs(stored, u) EXCEPT
                                 !.rew = step_reward(u.lmp, u.moer, power),
                                 !.terminal = is_terminal(e.n + 1)] ]
            IN  finish(apply_power(e.storage, power))
        lookup(u, requested) ==
            IF u.raised
            THEN [ storage |-> e.storage, clock |-> e.clock + 5, n |-> e.n + 1, o |-> u,
                   ret |-> Raised("ValueError") ]
            ELSE enact(u, validate_power(e.storage, requested))
    IN  lookup(update_current_obs(Frames, e.clock + 5, e.o),
               RMul(IF rescale_spaces THEN to_raw(action, Num(0 - 1), Num(1)) ELSE action,
                    max_power))

\* the point that run is at after reset(init_storage = x) and the given actions
RECURSIVE Replay(_, _)
Replay(x, actions) ==
    IF actions = <<>>
    THEN FirstReset(x)
    ELSE StepFrom(Replay(x, SubSeq(actions, 1, Len(actions) - 1)), actions[Len(actions)])

\* C17: after reset(init_storage = x) and a sequence of actions, the storage,
\* the step count, the clock and what the last step returned (observation,
\* reward, terminal flag) or raised are those of a run that makes the same
\* calls on an environment just constructed, whatever steps and resets came
\* before the reset.
C17_EpisodeIsolation ==
    (status = "ready" /\ episode.init_storage.kind # "absent") =>
        LET agree(e) ==
                /\ current_storage = e.storage
                /\ simulation_step = e.n
                /\ current_datetime = e.clock
                /\ call.op = "step" => ret = e.ret
        IN  agree(Replay(episode.init_storage, episode.actions))

\* the second step of an episode has just returned, the episode having been
\* started by reset(init_storage = 49) after steps of an earlier episode
C17_Witness ==
    /\ StepReturned
    /\ episode.init_storage = [kind |-> "float", value |-> Num(49)]
    /\ episode.after_steps
    /\ Len(episode.actions) = 2
    /\ current_storage # Num(49)


\* the 5-minute frames hold one row every 5 minutes from the episode start,
\* the hourly frames one bucket of an hour after the other
SpotContiguous(df) ==
    {r.interval_start : r \in df} = {date + 5 * k : k \in 0..(Cardinality(df) - 1)}
HourlyContiguous(df) ==
    {<<r.interval_start, r.interval_end>> : r \in df} =
        {<<date + 60 * k, date + 60 * k + 60>> : k \in 0..(Cardinality(df) - 1)}
Contiguous ==
    /\ SpotContiguous(lmp_df) /\ SpotContiguous(load_df) /\ SpotContiguous(moer_df)
    /\ HourlyContiguous(load_forecast_df) /\ HourlyContiguous(solar_wind_forecast_df)

\* each lookup of _update_current_obs at the clock now selects one row, the
\* forecast lookups the bucket that holds now + 5 minutes
LookupsMatchOneRow(now) ==
    /\ Cardinality({r \in lmp_df : r.interval_start = now}) = 1
    /\ Cardinality({r \in load_df : r.interval_start = now}) = 1
    /\ Cardinality({r \in moer_df : r.interval_start = now}) = 1
    /\ Cardinality({r \in load_forecast_df :
                        r.interval_start <= now + 5 /\ now + 5 < r.interval_end}) = 1
    /\ Cardinality({r \in solar_wind_forecast_df :
                        r.interval_start <= now + 5 /\ now + 5 < r.interval_end}) = 1

\* the object holds validated, contiguous frames
ValidatedContiguous == loaded # "" /\ Contiguous

\* C12: on frames that passed the validation of the constructor and are
\* contiguous, at construction and at every step 1..max_episode_steps each
\* lookup at the clock of that step selects exactly one row, and no lookup
\* raises.
C12_LookupsCovered ==
    (ValidatedContiguous /\ simulation_step <= max_episode_steps) =>
        /\ LookupsMatchOneRow(current_datetime)
        /\ status = "ready"
        /\ ret.exc # "ValueError"

\* the same over the day the constructor fetches: the steps 1..288
C12_FetchedDayCovered ==
    (ValidatedContiguous /\ simulation_step <= 288) =>
        /\ LookupsMatchOneRow(current_datetime)
        /\ status = "ready"
        /\ ret.exc # "ValueError"

\* the final step of the default episode has returned: the clock is at
\* start + 24 h, the forecast instant at start + 24 h + 5 min
C12_FinalStepCase ==
    /\ StepReturned
    /\ max_episode_steps = 288
    /\ simulation_step = 288
    /\ current_datetime = date + 24 * 60
    /\ ret.terminal
    /\ load_forecast = ValueOver(load_forecast_df, date + 24 * 60 + 5)


====
